---- MODULE Spec2Model ----
(***************************************************************************)
(* State-machine model of the two orchestration pipelines of starkiller:   *)
(*   - QueryExecutor.execute            (services/query/executor.py)       *)
(*   - DashboardGenerationOrchestrator  (services/generation/orchestrator) *)
(* and of the pure helpers they rely on (fallback query, LLM reply         *)
(* parsing, default visualization).  One action per await-delimited step.  *)
(***************************************************************************)
EXTENDS Integers, Sequences, FiniteSets, TLC

(* ------------------------------ bounds --------------------------------- *)
MaxDbSources == 2
MaxSources == 2
MaxRows == 1
MaxMs == 1
MaxTables == 2
MaxContentLen == 3
MaxCols == 2
MaxFrameRows == 2

(* --------------------------- shared values ----------------------------- *)
None == "None"
NoExc == "NoExc"

SourceIdPool == <<"ds1", "ds2", "ds3", "ds4">>
SourceNames == {"Sales", "Ops"}
SourceTypes == {"postgresql", "csv"}

\* services/data/connectors/__init__.py: the registry of get_connector
ConnectorRegistry == {"postgresql"}

\* schemas a connector's get_schema may return inside a pipeline run
PipelineSchemas == {<< >>, <<"orders">>, <<"users", "orders">>}

\* structured results the provider's generate_query may return
LlmQueryInfos ==
    { [query |-> "SELECT region, sum(amount) FROM orders GROUP BY region",
       query_type |-> "sql", explanation |-> "Totals per region"],
      [query |-> "df.describe()",
       query_type |-> "pandas", explanation |-> "Summary statistics"] }

ResultColumns == <<"month", "sales">>

RECURSIVE RowTag(_)
RowTag(k) == IF k = 0 THEN "" ELSE "i" \o RowTag(k - 1)

\* the table (DataFrame) of n rows that query qry retrieves from source sid
DataFrame(sid, qry, n) ==
    [columns |-> ResultColumns,
     data |-> [k \in 1..n |->
                 [c \in DOMAIN ResultColumns |->
                     sid \o "/" \o qry \o "/" \o RowTag(k) \o "/" \o ResultColumns[c]]]]

\* result_data before any result was stored (Python None)
NullResult == [is_null |-> TRUE, columns |-> << >>, rows |-> << >>, row_count |-> 0]

\* cell values that the materializer rewrites
NaN == "NaN"
Timestamps == {"Timestamp(2024-01-01 00:00:00)"}
isoformat(value) == "2024-01-01T00:00:00"

\* df.to_dict(orient="records"): one dict per row, keyed by column name; of
\* columns with the same name the last one is kept
to_dict_records(df) ==
    [k \in DOMAIN df.data |->
        [key \in {df.columns[j] : j \in DOMAIN df.columns} |->
            LET last == CHOOSE j \in DOMAIN df.columns :
                           /\ df.columns[j] = key
                           /\ \A i \in DOMAIN df.columns :
                                 df.columns[i] = key => i <= j
            IN  df.data[k][last]]]

\* a materializer that reports the frame's length also for an empty frame
dataframe_to_dict_LenOfEmpty(df) ==
    IF df.data = << >> \/ df.columns = << >>
    THEN [is_null |-> FALSE, columns |-> df.columns, rows |-> << >>,
          row_count |-> Len(df.data)]
    ELSE LET rows == to_dict_records(df)
         IN  [is_null |-> FALSE, columns |-> df.columns,
              rows |-> [k \in DOMAIN rows |->
                          [key \in DOMAIN rows[k] |->
                              IF rows[k][key] = NaN THEN None
                              ELSE IF rows[k][key] \in Timestamps
                                   THEN isoformat(rows[k][key])
                                   ELSE rows[k][key]]],
              row_count |-> Len(df.data)]

\* processor.py 15-54; df.empty holds when the frame has no row or no column
dataframe_to_dict(df) ==
    IF df.data = << >> \/ df.columns = << >>
    THEN [is_null |-> FALSE, columns |-> df.columns, rows |-> << >>,
          row_count |-> 0]
    ELSE LET rows == to_dict_records(df)
         IN  [is_null |-> FALSE, columns |-> df.columns,
              rows |-> [k \in DOMAIN rows |->
                          [key \in DOMAIN rows[k] |->
                              IF rows[k][key] = NaN THEN None
                              ELSE IF rows[k][key] \in Timestamps
                                   THEN isoformat(rows[k][key])
                                   ELSE rows[k][key]]],
              row_count |-> Len(df.data)]

\* execution_time_ms before it is stamped (Python None)
NullMs == -1

\* no Query record yet
NoQuery ==
    [status |-> "absent", generated_query |-> None, query_type |-> None,
     result_data |-> NullResult, error_message |-> None,
     execution_time_ms |-> NullMs, data_source_id |-> None]

\* no DataSource resolved yet
NoDataSource == [id |-> None, is_active |-> FALSE, created_at |-> 0, source_type |-> None]

\* no Visualization row
NoViz == [chart_type |-> None]

VARIABLES
    \* ---- single-query pipeline (QueryExecutor.execute) ----
    db_sources,     \* data_sources table: sequence of DataSource rows
    q_req,          \* the request: [data_source_id]
    q_pc,           \* position inside execute
    q,              \* the Query record (or None before it is created)
    q_exc,          \* exception in flight inside execute
    q_ds,           \* resolved DataSource
    q_conn,         \* connector state: "none" | "open" | "closed"
    q_calls,        \* number of calls made to each collaborator
    q_viz,          \* Visualization row added to the session (or None)
    q_hist,         \* what has happened so far in this run
    \* ---- dashboard pipeline (DashboardGenerationOrchestrator.generate) ----
    dashboard,      \* the stored dashboard (or None when absent)
    d_pc,           \* position inside generate / _process_data_source
    d_i,            \* index of the data source being processed
    d_cur,          \* locals of _process_data_source
    d_exc,          \* exception in flight
    d_acc,          \* schemas, data_samples, queries_generated, data_sources_used
    d_conn,         \* connector state per source index
    d_calls,        \* number of calls per source index
    d_react_calls,  \* number of generate_react_visualization calls
    d_hist,         \* per source index: what happened
    d_out,          \* what generate returned or raised
    \* ---- pure helpers under test ----
    p_pc, p_in, p_out,
    \* ---- route handlers (routes/query.py, routes/dashboards.py) ----
    http            \* the HTTP response sent to the caller

q_vars == <<db_sources, q_req, q_pc, q, q_exc, q_ds, q_conn, q_calls, q_viz, q_hist>>
d_vars == <<dashboard, d_pc, d_i, d_cur, d_exc, d_acc, d_conn, d_calls,
            d_react_calls, d_hist, d_out>>
p_vars == <<p_pc, p_in, p_out>>
r_vars == <<http>>
vars == <<q_vars, d_vars, p_vars, r_vars>>

(* ------------------------- idle initial values ------------------------- *)
QIdle ==
    /\ db_sources = << >>
    /\ q_req = [data_source_id |-> None]
    /\ q_pc = "idle"
    /\ q = NoQuery
    /\ q_exc = NoExc
    /\ q_ds = NoDataSource
    /\ q_conn = "none"
    /\ q_calls = [get_connector |-> 0, connect |-> 0, disconnect |-> 0,
                  get_schema |-> 0, generate_query |-> 0, execute_query |-> 0,
                  recommend_visualization |-> 0]
    /\ q_viz = NoViz
    /\ q_hist = [llm_exec_failed |-> FALSE, exec_error |-> None,
                 was_completed |-> FALSE]

DIdle ==
    /\ dashboard = None
    /\ d_pc = "idle"
    /\ d_i = 0
    /\ d_cur = None
    /\ d_exc = NoExc
    /\ d_acc = None
    /\ d_conn = << >>
    /\ d_calls = << >>
    /\ d_react_calls = 0
    /\ d_hist = << >>
    /\ d_out = None

PIdle ==
    /\ p_pc = "idle"
    /\ p_in = None
    /\ p_out = None

\* no response has been sent
NoHttp == [status |-> 0, error |-> None, message |-> None, details |-> None]

RIdle == http = NoHttp

(***************************************************************************)
(*                 QueryExecutor.execute  (executor.py 31-127)             *)
(***************************************************************************)
DataSourceRows(n) ==
    [1..n -> [is_active : BOOLEAN, created_at : 1..2, source_type : SourceTypes]]

MkDbSources(f) ==
    [k \in DOMAIN f |-> [id |-> SourceIdPool[k], is_active |-> f[k].is_active,
                         created_at |-> f[k].created_at,
                         source_type |-> f[k].source_type]]

\* "" is a string the request schema accepts (schemas/query.py 16)
RequestIds == {None, "", "ds1", "ds2", "missing"}

QInit ==
    /\ \E n \in 0..MaxDbSources : \E f \in DataSourceRows(n) :
          db_sources = MkDbSources(f)
    /\ q_req \in [data_source_id : RequestIds]
    /\ q_pc = "start"
    /\ q = NoQuery
    /\ q_exc = NoExc
    /\ q_ds = NoDataSource
    /\ q_conn = "none"
    /\ q_calls = [get_connector |-> 0, connect |-> 0, disconnect |-> 0,
                  get_schema |-> 0, generate_query |-> 0, execute_query |-> 0,
                  recommend_visualization |-> 0]
    /\ q_viz = NoViz
    /\ q_hist = [llm_exec_failed |-> FALSE, exec_error |-> None,
                 was_completed |-> FALSE]
    /\ DIdle /\ PIdle /\ RIdle

Bump(calls, name) == [calls EXCEPT ![name] = @ + 1]

\* executor.py 54-63: the Query record is created in status "processing"
QStart ==
    /\ q_pc = "start"
    /\ q' = [status |-> "processing", generated_query |-> None,
             query_type |-> "sql", result_data |-> NullResult,
             error_message |-> None, execution_time_ms |-> NullMs,
             data_source_id |-> q_req.data_source_id]
    /\ \/ q_pc' = "get_data_source" /\ q_exc' = NoExc
       \/ q_pc' = "raised" /\ q_exc' = "flush_error"   \* flush at line 63 is outside the try
    /\ UNCHANGED <<db_sources, q_req, q_ds, q_conn, q_calls, q_viz, q_hist>>
    /\ UNCHANGED <<d_vars, p_vars, r_vars>>

\* executor.py 129-147
ActiveByCreatedDesc ==
    {k \in DOMAIN db_sources :
        /\ db_sources[k].is_active
        /\ \A j \in DOMAIN db_sources :
              db_sources[j].is_active => db_sources[j].created_at <= db_sources[k].created_at}

\* a resolver that takes any active source, whatever its creation time
_get_data_source_AnyActive(data_source_id) ==
    IF data_source_id \notin {None, ""}
    THEN {db_sources[k] : k \in {j \in DOMAIN db_sources : db_sources[j].id = data_source_id}}
    ELSE {db_sources[k] : k \in {j \in DOMAIN db_sources : db_sources[j].is_active}}

\* executor.py 129-147; "if data_source_id:" is false for None and for ""
_get_data_source(data_source_id) ==
    IF data_source_id \notin {None, ""}
    THEN {db_sources[k] : k \in {j \in DOMAIN db_sources : db_sources[j].id = data_source_id}}
    ELSE {db_sources[k] : k \in ActiveByCreatedDesc}

QGetDataSource ==
    /\ q_pc = "get_data_source"
    /\ \/ \E ds \in _get_data_source(q_req.data_source_id) :
             /\ q_ds' = ds /\ q_pc' = "get_connector" /\ q_exc' = NoExc
       \/ /\ _get_data_source(q_req.data_source_id) = {}
          /\ q_ds' = NoDataSource /\ q_pc' = "except"
          /\ q_exc' = "No data source available"
       \/ /\ q_ds' = NoDataSource /\ q_pc' = "except" /\ q_exc' = "db_error"
    /\ UNCHANGED <<db_sources, q_req, q, q_conn, q_calls, q_viz, q_hist>>
    /\ UNCHANGED <<d_vars, p_vars, r_vars>>

\* executor.py 70-73 and connectors/__init__.py 9-28
QGetConnector ==
    /\ q_pc = "get_connector"
    /\ q_calls' = Bump(q_calls, "get_connector")
    /\ IF q_ds.source_type \in ConnectorRegistry
       THEN q_pc' = "connect" /\ q_exc' = NoExc
       ELSE q_pc' = "except" /\ q_exc' = "Unknown data source type"
    /\ UNCHANGED <<db_sources, q_req, q, q_ds, q_conn, q_viz, q_hist>>
    /\ UNCHANGED <<d_vars, p_vars, r_vars>>

\* executor.py 75 and base.py 60-63: __aenter__ awaits connect()
QConnect ==
    /\ q_pc = "connect"
    /\ q_calls' = Bump(q_calls, "connect")
    /\ \/ q_conn' = "open" /\ q_pc' = "get_schema" /\ q_exc' = NoExc
       \/ q_conn' = q_conn /\ q_pc' = "except" /\ q_exc' = "connect_error"
    /\ UNCHANGED <<db_sources, q_req, q, q_ds, q_viz, q_hist>>
    /\ UNCHANGED <<d_vars, p_vars, r_vars>>

\* executor.py 76
QGetSchema ==
    /\ q_pc = "get_schema"
    /\ q_calls' = Bump(q_calls, "get_schema")
    /\ \/ q_pc' = "generate_query" /\ q_exc' = NoExc
       \/ q_pc' = "aexit" /\ q_exc' = "schema_error"
    /\ UNCHANGED <<db_sources, q_req, q, q_ds, q_conn, q_viz, q_hist>>
    /\ UNCHANGED <<d_vars, p_vars, r_vars>>

\* executor.py 79-85
QGenerateQuery ==
    /\ q_pc = "generate_query"
    /\ q_calls' = Bump(q_calls, "generate_query")
    /\ \/ \E info \in LlmQueryInfos :
             /\ q' = [q EXCEPT !.generated_query = info.query,
                               !.query_type = info.query_type]
             /\ q_pc' = "execute_query" /\ q_exc' = NoExc
       \/ q' = q /\ q_pc' = "aexit" /\ q_exc' = "llm_error"
    /\ UNCHANGED <<db_sources, q_req, q_ds, q_conn, q_viz, q_hist>>
    /\ UNCHANGED <<d_vars, p_vars, r_vars>>

\* an execution step that records the error text while the run is still
\* in processing
QExecuteQuery_RecordsError ==
    /\ q_pc = "execute_query"
    /\ q_calls' = Bump(q_calls, "execute_query")
    /\ q_pc' = "aexit"
    /\ \/ \E n \in 0..MaxRows :
             /\ q' = [q EXCEPT !.result_data =
                          dataframe_to_dict(DataFrame(q_ds.id, q.generated_query, n))]
             /\ q_exc' = NoExc /\ q_hist' = q_hist
       \/ /\ q' = [q EXCEPT !.error_message = "exec_error"]
          /\ q_exc' = "exec_error"
          /\ q_hist' = [q_hist EXCEPT !.llm_exec_failed = TRUE,
                                      !.exec_error = "exec_error"]
       \/ q' = q /\ q_exc' = "materialize_error" /\ q_hist' = q_hist
    /\ UNCHANGED <<db_sources, q_req, q_ds, q_conn, q_viz>>
    /\ UNCHANGED <<d_vars, p_vars, r_vars>>

\* executor.py 88-91: execute the generated query, materialize the result
QExecuteQuery ==
    /\ q_pc = "execute_query"
    /\ q_calls' = Bump(q_calls, "execute_query")
    /\ q_pc' = "aexit"
    /\ \/ \E n \in 0..MaxRows :
             /\ q' = [q EXCEPT !.result_data =
                          dataframe_to_dict(DataFrame(q_ds.id, q.generated_query, n))]
             /\ q_exc' = NoExc /\ q_hist' = q_hist
       \/ /\ q' = q /\ q_exc' = "exec_error"
          /\ q_hist' = [q_hist EXCEPT !.llm_exec_failed = TRUE,
                                      !.exec_error = "exec_error"]
       \/ q' = q /\ q_exc' = "materialize_error" /\ q_hist' = q_hist
    /\ UNCHANGED <<db_sources, q_req, q_ds, q_conn, q_viz>>
    /\ UNCHANGED <<d_vars, p_vars, r_vars>>

\* a connector whose release is skipped when the block is left by an exception
QAexit_NoRelease ==
    /\ q_pc = "aexit"
    /\ q_calls' = IF q_exc = NoExc THEN Bump(q_calls, "disconnect") ELSE q_calls
    /\ q_conn' = IF q_exc = NoExc THEN "closed" ELSE q_conn
    /\ q_pc' = IF q_exc = NoExc THEN "visualize" ELSE "except"
    /\ UNCHANGED <<db_sources, q_req, q, q_exc, q_ds, q_viz, q_hist>>
    /\ UNCHANGED <<d_vars, p_vars, r_vars>>

\* executor.py 75 (leaving the async with) and base.py 65-67
QAexit ==
    /\ q_pc = "aexit"
    /\ q_calls' = Bump(q_calls, "disconnect")
    /\ q_conn' = "closed"
    /\ q_pc' = IF q_exc = NoExc THEN "visualize" ELSE "except"
    /\ UNCHANGED <<db_sources, q_req, q, q_exc, q_ds, q_viz, q_hist>>
    /\ UNCHANGED <<d_vars, p_vars, r_vars>>

\* values recommend_visualization may hand back to the pipeline
VizResponses ==
    { [kind |-> "dict", chart_type |-> "line"],
      [kind |-> "dict", chart_type |-> "bar"],    \* the provider's default
      [kind |-> "dict", chart_type |-> None],     \* a dict without chart_type
      [kind |-> "empty_dict", chart_type |-> None],
      [kind |-> "non_dict", chart_type |-> None] }

\* executor.py 149-168: None when the provider raises
_generate_visualization == VizResponses \cup {[kind |-> "none", chart_type |-> None]}

\* executor.py 101-110
Visualization(viz_config) ==
    [chart_type |-> IF viz_config.chart_type = None THEN "bar"
                    ELSE viz_config.chart_type]

Completed(rec, ms) ==
    [rec EXCEPT !.status = "completed", !.execution_time_ms = ms]

\* executor.py 93-114
QVisualize ==
    /\ q_pc = "visualize"
    /\ \/ /\ q.result_data.row_count = 0
          /\ \E ms \in 0..MaxMs : q' = Completed(q, ms)
          /\ q_hist' = [q_hist EXCEPT !.was_completed = TRUE]
          /\ q_pc' = "flush" /\ q_exc' = NoExc
          /\ UNCHANGED <<q_viz, q_calls>>
       \/ /\ q.result_data.row_count > 0
          /\ q_calls' = Bump(q_calls, "recommend_visualization")
          /\ \E v \in _generate_visualization :
                IF v.kind = "non_dict"
                THEN \* viz_config.get raises AttributeError
                     /\ q_pc' = "except" /\ q_exc' = "viz_shape_error"
                     /\ UNCHANGED <<q, q_viz, q_hist>>
                ELSE /\ q_viz' = IF v.kind = "dict"
                                 THEN Visualization(v) ELSE q_viz
                     /\ \E ms \in 0..MaxMs : q' = Completed(q, ms)
                     /\ q_hist' = [q_hist EXCEPT !.was_completed = TRUE]
                     /\ q_pc' = "flush" /\ q_exc' = NoExc
    /\ UNCHANGED <<db_sources, q_req, q_ds, q_conn>>
    /\ UNCHANGED <<d_vars, p_vars, r_vars>>

\* executor.py 116
QFlush ==
    /\ q_pc = "flush"
    /\ \/ q_pc' = "refresh" /\ q_exc' = NoExc
       \/ q_pc' = "except" /\ q_exc' = "flush_error"
    /\ UNCHANGED <<db_sources, q_req, q, q_ds, q_conn, q_calls, q_viz, q_hist>>
    /\ UNCHANGED <<d_vars, p_vars, r_vars>>

\* executor.py 117-119
QRefresh ==
    /\ q_pc = "refresh"
    /\ \/ q_pc' = "returned" /\ q_exc' = NoExc
       \/ q_pc' = "except" /\ q_exc' = "refresh_error"
    /\ UNCHANGED <<db_sources, q_req, q, q_ds, q_conn, q_calls, q_viz, q_hist>>
    /\ UNCHANGED <<d_vars, p_vars, r_vars>>

\* a failure handler that forgets to stamp the elapsed time
Failed_NoStamp(rec, e, ms) ==
    [rec EXCEPT !.status = "failed", !.error_message = e]

Failed(rec, e, ms) ==
    [rec EXCEPT !.status = "failed", !.error_message = e,
                !.execution_time_ms = ms]

\* executor.py 121-127
QExcept ==
    /\ q_pc = "except"
    /\ \E ms \in 0..MaxMs : q' = Failed(q, q_exc, ms)
    /\ q_pc' = "raised"
    /\ \/ q_exc' = "QueryException"
       \/ q_exc' = "flush_error"        \* flush at line 126 raises instead
    /\ UNCHANGED <<db_sources, q_req, q_ds, q_conn, q_calls, q_viz, q_hist>>
    /\ UNCHANGED <<d_vars, p_vars, r_vars>>

QNext ==
    \/ QStart \/ QGetDataSource \/ QGetConnector \/ QConnect \/ QGetSchema
    \/ QGenerateQuery \/ QExecuteQuery \/ QAexit \/ QVisualize
    \/ QFlush \/ QRefresh \/ QExcept

SpecQuery == QInit /\ [][QNext]_vars

(***************************************************************************)
(*     DashboardGenerationOrchestrator.generate  (orchestrator.py)         *)
(***************************************************************************)
NoDashboard == [exists |-> FALSE, id |-> None, title |-> None, data_sources |-> << >>]

DashboardSourceRows(n) ==
    [1..n -> [name : SourceNames, is_active : BOOLEAN, source_type : SourceTypes]]

MkDashboard(f) ==
    [exists |-> TRUE, id |-> "dash1", title |-> "Revenue",
     data_sources |->
        [k \in DOMAIN f |-> [id |-> SourceIdPool[k], name |-> f[k].name,
                             is_active |-> f[k].is_active,
                             source_type |-> f[k].source_type]]]

NoCalls ==
    [get_connector |-> 0, connect |-> 0, disconnect |-> 0, get_schema |-> 0,
     generate_query |-> 0, execute_query |-> 0, fallback_chosen |-> 0]

NoHist ==
    [llm_exec_failed |-> FALSE, fallback_used |-> FALSE,
     fallback_failed |-> FALSE, outcome |-> "untouched",
     llm_query |-> None, fallback_query |-> None, fallback_type |-> None]

NoQueryInfo == [query |-> None, query_type |-> None, explanation |-> None]

NoCur ==
    [schema_dict |-> [tables |-> << >>], query_info |-> NoQueryInfo,
     sample_data |-> NullResult]

NoAcc ==
    [schemas |-> << >>, data_samples |-> << >>, queries_generated |-> << >>,
     data_sources_used |-> << >>]

\* schemas/generation.py 90-92: timing_metrics defaults to None
NullTiming == [is_null |-> TRUE, data_source_timings |-> << >>]

NoResponse ==
    [dashboard_id |-> None, react_code |-> None, data_sources_used |-> << >>,
     queries_generated |-> << >>, sample_data |-> << >>,
     execution_time_ms |-> NullMs, timing_metrics |-> NullTiming]

NoOut ==
    [kind |-> "none", exc |-> None, message |-> None, details |-> None,
     response |-> NoResponse]

Raise(exc, message, details) ==
    [kind |-> "raise", exc |-> exc, message |-> message, details |-> details,
     response |-> NoResponse]

DInit ==
    /\ \/ dashboard = NoDashboard
       \/ \E n \in 0..MaxSources : \E f \in DashboardSourceRows(n) :
             dashboard = MkDashboard(f)
    /\ d_pc = "start"
    /\ d_i = 0
    /\ d_cur = NoCur
    /\ d_exc = NoExc
    /\ d_acc = NoAcc
    /\ d_conn = [k \in DOMAIN dashboard.data_sources |-> "none"]
    /\ d_calls = [k \in DOMAIN dashboard.data_sources |-> NoCalls]
    /\ d_react_calls = 0
    /\ d_hist = [k \in DOMAIN dashboard.data_sources |-> NoHist]
    /\ d_out = NoOut
    /\ QIdle /\ PIdle /\ RIdle

Src == dashboard.data_sources[d_i]

DBump(name) == [d_calls EXCEPT ![d_i][name] = @ + 1]

\* an except clause that names the dashboard's first source
SourceFailure_FirstSource(ds, e) ==
    Raise("GenerationQueryExecutionError", dashboard.data_sources[1].name,
          [data_source_id |-> dashboard.data_sources[1].id, error |-> e])

\* orchestrator.py 113-122: the except clause of the per-source loop
SourceFailure(ds, e) ==
    Raise("GenerationQueryExecutionError", ds.name,
          [data_source_id |-> ds.id, error |-> e])

\* orchestrator.py 64-70 and 191-205
DGetDashboard ==
    /\ d_pc = "start"
    /\ \/ /\ ~dashboard.exists
          /\ d_out' = Raise("HTTPException", "Dashboard not found", None)
          /\ d_pc' = "raised" /\ d_i' = d_i
       \/ /\ dashboard.exists /\ dashboard.data_sources = << >>
          /\ d_out' = Raise("GenerationNoDataSourcesError",
                            "has no associated data sources", dashboard.id)
          /\ d_pc' = "raised" /\ d_i' = d_i
       \/ /\ dashboard.exists /\ dashboard.data_sources # << >>
          /\ d_out' = d_out /\ d_pc' = "loop" /\ d_i' = 1
       \/ /\ d_out' = Raise("db_error", "db_error", None)   \* db.execute raises
          /\ d_pc' = "raised" /\ d_i' = d_i
    /\ UNCHANGED <<dashboard, d_cur, d_exc, d_acc, d_conn, d_calls,
                   d_react_calls, d_hist>>
    /\ UNCHANGED <<q_vars, p_vars, r_vars>>

\* a loop that does not skip inactive sources
DLoop_NoActiveFilter ==
    /\ d_pc = "loop"
    /\ IF d_i > Len(dashboard.data_sources)
       THEN IF d_acc.data_sources_used = << >>
            THEN /\ d_out' = Raise("GenerationNoDataSourcesError",
                                   "No active data sources available for generation",
                                   dashboard.id)
                 /\ d_pc' = "raised" /\ d_i' = d_i
            ELSE d_out' = d_out /\ d_pc' = "react" /\ d_i' = d_i
       ELSE d_out' = d_out /\ d_pc' = "get_connector" /\ d_i' = d_i
    /\ UNCHANGED <<dashboard, d_cur, d_exc, d_acc, d_conn, d_calls,
                   d_react_calls, d_hist>>
    /\ UNCHANGED <<q_vars, p_vars, r_vars>>

\* orchestrator.py 78-80 and 124-128
DLoop ==
    /\ d_pc = "loop"
    /\ IF d_i > Len(dashboard.data_sources)
       THEN IF d_acc.data_sources_used = << >>
            THEN /\ d_out' = Raise("GenerationNoDataSourcesError",
                                   "No active data sources available for generation",
                                   dashboard.id)
                 /\ d_pc' = "raised" /\ d_i' = d_i
            ELSE d_out' = d_out /\ d_pc' = "react" /\ d_i' = d_i
       ELSE IF ~Src.is_active
            THEN d_out' = d_out /\ d_pc' = "loop" /\ d_i' = d_i + 1
            ELSE d_out' = d_out /\ d_pc' = "get_connector" /\ d_i' = d_i
    /\ UNCHANGED <<dashboard, d_cur, d_exc, d_acc, d_conn, d_calls,
                   d_react_calls, d_hist>>
    /\ UNCHANGED <<q_vars, p_vars, r_vars>>

\* orchestrator.py 219-222 and connectors/__init__.py 9-28
DGetConnector ==
    /\ d_pc = "get_connector"
    /\ d_calls' = DBump("get_connector")
    /\ d_cur' = NoCur
    /\ IF Src.source_type \in ConnectorRegistry
       THEN d_pc' = "connect" /\ UNCHANGED <<d_out, d_hist>>
       ELSE /\ d_pc' = "raised"
            /\ d_out' = SourceFailure(Src, "Unknown data source type")
            /\ d_hist' = [d_hist EXCEPT ![d_i].outcome = "failed"]
    /\ UNCHANGED <<dashboard, d_i, d_exc, d_acc, d_conn, d_react_calls>>
    /\ UNCHANGED <<q_vars, p_vars, r_vars>>

\* orchestrator.py 224 and base.py 60-63
DConnect ==
    /\ d_pc = "connect"
    /\ d_calls' = DBump("connect")
    /\ \/ /\ d_conn' = [d_conn EXCEPT ![d_i] = "open"]
          /\ d_pc' = "get_schema" /\ UNCHANGED <<d_out, d_hist>>
       \/ /\ d_conn' = d_conn /\ d_pc' = "raised"
          /\ d_out' = SourceFailure(Src, "connect_error")
          /\ d_hist' = [d_hist EXCEPT ![d_i].outcome = "failed"]
    /\ UNCHANGED <<dashboard, d_i, d_cur, d_exc, d_acc, d_react_calls>>
    /\ UNCHANGED <<q_vars, p_vars, r_vars>>

\* orchestrator.py 226-227
DGetSchema ==
    /\ d_pc = "get_schema"
    /\ d_calls' = DBump("get_schema")
    /\ \/ \E t \in PipelineSchemas :
             /\ d_cur' = [d_cur EXCEPT !.schema_dict = [tables |-> t]]
             /\ d_pc' = "generate_query" /\ d_exc' = NoExc
       \/ d_cur' = d_cur /\ d_pc' = "aexit" /\ d_exc' = "schema_error"
    /\ UNCHANGED <<dashboard, d_i, d_acc, d_conn, d_react_calls, d_hist, d_out>>
    /\ UNCHANGED <<q_vars, p_vars, r_vars>>

\* orchestrator.py 230-235
DGenerateQuery ==
    /\ d_pc = "generate_query"
    /\ d_calls' = DBump("generate_query")
    /\ \/ \E info \in LlmQueryInfos :
             /\ d_cur' = [d_cur EXCEPT !.query_info = info]
             /\ d_hist' = [d_hist EXCEPT ![d_i].llm_query = info.query]
             /\ d_pc' = "execute_query" /\ d_exc' = NoExc
       \/ /\ d_cur' = d_cur /\ d_hist' = d_hist
          /\ d_pc' = "aexit" /\ d_exc' = "llm_error"
    /\ UNCHANGED <<dashboard, d_i, d_acc, d_conn, d_react_calls, d_out>>
    /\ UNCHANGED <<q_vars, p_vars, r_vars>>

\* orchestrator.py 238-246: run the LLM query, materialize; any failure
\* of either leads to the fallback
DExecuteQuery ==
    /\ d_pc = "execute_query"
    /\ d_calls' = DBump("execute_query")
    /\ \/ \E n \in 0..MaxRows :
             /\ d_cur' = [d_cur EXCEPT !.sample_data =
                             dataframe_to_dict(DataFrame(Src.id, d_cur.query_info.query, n))]
             /\ d_hist' = d_hist
             /\ d_pc' = "aexit" /\ d_exc' = NoExc
       \/ /\ d_cur' = d_cur
          /\ d_hist' = [d_hist EXCEPT ![d_i].llm_exec_failed = TRUE]
          /\ d_pc' = "fallback" /\ d_exc' = "exec_error"
    /\ UNCHANGED <<dashboard, d_i, d_acc, d_conn, d_react_calls, d_out>>
    /\ UNCHANGED <<q_vars, p_vars, r_vars>>

\* a fallback that picks the last table of the schema
_get_fallback_query_LastTable(source_type, schema_dict) ==
    IF source_type = "postgresql"
    THEN LET tables == schema_dict.tables
         IN  IF tables # << >> /\ tables[Len(tables)] # ""
             THEN <<"SELECT * FROM \"" \o tables[Len(tables)] \o "\" LIMIT 100", "sql">>
             ELSE <<"SELECT 1", "sql">>
    ELSE <<"df.head(100)", "pandas">>

\* orchestrator.py 269-288; schema_dict.tables is the sequence of table names
\* (a table without a name reads as "")
_get_fallback_query(source_type, schema_dict) ==
    IF source_type = "postgresql"
    THEN LET tables == schema_dict.tables
         IN  IF tables # << >> /\ tables[1] # ""
             THEN <<"SELECT * FROM \"" \o tables[1] \o "\" LIMIT 100", "sql">>
             ELSE <<"SELECT 1", "sql">>
    ELSE <<"df.head(100)", "pandas">>

FallbackExplanation == "Fallback query (LLM query failed)"

\* a fallback step that tries the fallback again when it fails
DFallback_Retry ==
    /\ d_pc = "fallback"
    /\ d_calls[d_i].fallback_chosen < 3
    /\ d_calls' = [d_calls EXCEPT ![d_i].execute_query = @ + 1,
                                  ![d_i].fallback_chosen = @ + 1]
    /\ d_hist' = [d_hist EXCEPT ![d_i].fallback_failed = TRUE]
    /\ d_exc' = "fallback_exec_error"
    /\ d_pc' = IF d_calls[d_i].fallback_chosen < 1 THEN "fallback" ELSE "aexit"
    /\ UNCHANGED <<dashboard, d_i, d_cur, d_acc, d_conn, d_react_calls, d_out>>
    /\ UNCHANGED <<q_vars, p_vars, r_vars>>

\* orchestrator.py 247-265
DFallback ==
    /\ d_pc = "fallback"
    /\ LET fb == _get_fallback_query(Src.source_type, d_cur.schema_dict)
       IN  /\ d_calls' = [d_calls EXCEPT ![d_i].execute_query = @ + 1,
                                         ![d_i].fallback_chosen = @ + 1]
           /\ \/ \E n \in 0..MaxRows :
                    /\ d_cur' = [d_cur EXCEPT
                                   !.sample_data = dataframe_to_dict(DataFrame(Src.id, fb[1], n)),
                                   !.query_info = [query |-> fb[1],
                                                   query_type |-> fb[2],
                                                   explanation |-> FallbackExplanation]]
                    /\ d_hist' = [d_hist EXCEPT ![d_i].fallback_used = TRUE,
                                                ![d_i].fallback_query = fb[1],
                                                ![d_i].fallback_type = fb[2]]
                    /\ d_exc' = NoExc
              \/ /\ d_cur' = d_cur
                 /\ d_hist' = [d_hist EXCEPT ![d_i].fallback_failed = TRUE,
                                             ![d_i].fallback_query = fb[1],
                                             ![d_i].fallback_type = fb[2]]
                 /\ d_exc' = "fallback_exec_error"
    /\ d_pc' = "aexit"
    /\ UNCHANGED <<dashboard, d_i, d_acc, d_conn, d_react_calls, d_out>>
    /\ UNCHANGED <<q_vars, p_vars, r_vars>>

\* schemas/generation.py 37-44
GeneratedQuery(ds, query_info, sample_data) ==
    [data_source_id |-> ds.id, data_source_name |-> ds.name,
     query |-> query_info.query, query_type |-> query_info.query_type,
     row_count |-> sample_data.row_count]

\* a loop body that puts the newest source first in every list
Gather_Prepend(acc, ds, cur) ==
    [schemas |-> <<[name |-> ds.name, id |-> ds.id, schema |-> cur.schema_dict]>>
                    \o acc.schemas,
     data_samples |-> <<[name |-> ds.name, id |-> ds.id,
                         columns |-> cur.sample_data.columns,
                         rows |-> cur.sample_data.rows,
                         total_rows |-> cur.sample_data.row_count]>>
                         \o acc.data_samples,
     queries_generated |-> <<GeneratedQuery(ds, cur.query_info, cur.sample_data)>>
                              \o acc.queries_generated,
     data_sources_used |-> <<ds.id>> \o acc.data_sources_used]

\* orchestrator.py 89-111
Gather(acc, ds, cur) ==
    [schemas |-> Append(acc.schemas,
                    [name |-> ds.name, id |-> ds.id, schema |-> cur.schema_dict]),
     data_samples |-> Append(acc.data_samples,
                    [name |-> ds.name, id |-> ds.id,
                     columns |-> cur.sample_data.columns,
                     rows |-> cur.sample_data.rows,
                     total_rows |-> cur.sample_data.row_count]),
     queries_generated |-> Append(acc.queries_generated,
                    GeneratedQuery(ds, cur.query_info, cur.sample_data)),
     data_sources_used |-> Append(acc.data_sources_used, ds.id)]

\* a per-source handler that logs the failure and moves on to the next source
DAexit_Swallow ==
    /\ d_pc = "aexit"
    /\ d_calls' = DBump("disconnect")
    /\ d_conn' = [d_conn EXCEPT ![d_i] = "closed"]
    /\ d_acc' = IF d_exc = NoExc THEN Gather(d_acc, Src, d_cur) ELSE d_acc
    /\ d_hist' = [d_hist EXCEPT ![d_i].outcome =
                      IF d_exc = NoExc THEN "ok" ELSE "failed"]
    /\ d_pc' = "loop" /\ d_i' = d_i + 1 /\ d_out' = d_out
    /\ UNCHANGED <<dashboard, d_cur, d_exc, d_react_calls>>
    /\ UNCHANGED <<q_vars, p_vars, r_vars>>

\* orchestrator.py 224 (leaving the async with), base.py 65-67, then either
\* lines 89-111 or the except clause at 113-122
DAexit ==
    /\ d_pc = "aexit"
    /\ d_calls' = DBump("disconnect")
    /\ d_conn' = [d_conn EXCEPT ![d_i] = "closed"]
    /\ IF d_exc = NoExc
       THEN /\ d_acc' = Gather(d_acc, Src, d_cur)
            /\ d_hist' = [d_hist EXCEPT ![d_i].outcome = "ok"]
            /\ d_pc' = "loop" /\ d_i' = d_i + 1 /\ d_out' = d_out
       ELSE /\ d_acc' = d_acc
            /\ d_hist' = [d_hist EXCEPT ![d_i].outcome = "failed"]
            /\ d_pc' = "raised" /\ d_i' = d_i
            /\ d_out' = SourceFailure(Src, d_exc)
    /\ UNCHANGED <<dashboard, d_cur, d_exc, d_react_calls>>
    /\ UNCHANGED <<q_vars, p_vars, r_vars>>

\* orchestrator.py 157-161: a dict keyed by source name, later entries win
sample_data_dict(samples) ==
    [nm \in {samples[k].name : k \in DOMAIN samples} |->
        LET last == CHOOSE k \in DOMAIN samples :
                       /\ samples[k].name = nm
                       /\ \A j \in DOMAIN samples : samples[j].name = nm => j <= k
        IN  samples[last].rows]

\* orchestrator.py 176-189
GenerateResponse(acc, ms) ==
    [dashboard_id |-> dashboard.id, react_code |-> "react_code",
     data_sources_used |-> acc.data_sources_used,
     queries_generated |-> acc.queries_generated,
     sample_data |-> sample_data_dict(acc.data_samples),
     execution_time_ms |-> ms,
     timing_metrics |-> NullTiming]     \* not passed at 176-189

\* a code-generation step that is run once per gathered source
DReact_PerSource ==
    /\ d_pc = "react"
    /\ d_react_calls' = d_react_calls + Len(d_acc.data_sources_used)
    /\ \E ms \in 0..MaxMs :
          d_out' = [kind |-> "return", exc |-> None, message |-> None,
                    details |-> None, response |-> GenerateResponse(d_acc, ms)]
    /\ d_pc' = "returned"
    /\ UNCHANGED <<dashboard, d_i, d_cur, d_exc, d_acc, d_conn, d_calls, d_hist>>
    /\ UNCHANGED <<q_vars, p_vars, r_vars>>

\* orchestrator.py 130-189
DReact ==
    /\ d_pc = "react"
    /\ d_react_calls' = d_react_calls + 1
    /\ \/ /\ \E ms \in 0..MaxMs :
                d_out' = [kind |-> "return", exc |-> None, message |-> None,
                          details |-> None,
                          response |-> GenerateResponse(d_acc, ms)]
          /\ d_pc' = "returned"
       \/ /\ d_out' = Raise("GenerationCodeError",
                            "Failed to generate React visualization code",
                            "llm_error")
          /\ d_pc' = "raised"
    /\ UNCHANGED <<dashboard, d_i, d_cur, d_exc, d_acc, d_conn, d_calls, d_hist>>
    /\ UNCHANGED <<q_vars, p_vars, r_vars>>

DNext ==
    \/ DGetDashboard \/ DLoop \/ DGetConnector \/ DConnect \/ DGetSchema
    \/ DGenerateQuery \/ DExecuteQuery \/ DFallback \/ DAexit \/ DReact

SpecDash == DInit /\ [][DNext]_vars

(***************************************************************************)
(*                     Properties of QueryExecutor.execute                 *)
(***************************************************************************)
QTerminal == q_pc \in {"returned", "raised"}

\* C1: whenever execution of the LLM-generated query fails, the fallback
\* query is executed exactly once before the run can become failed (so two
\* execute_query calls have been made by then), and the error recorded is
\* not the LLM query's own execution error but the fallback's.
C1_FallbackOnceBeforeFailed ==
    (q.status = "failed" /\ q_hist.llm_exec_failed)
        => /\ q_calls.execute_query = 2
           /\ q.error_message # q_hist.exec_error

\* C2: once status is completed or failed, no later step changes it.
C2_TerminalStatusNeverChanges ==
    [][q.status \in {"completed", "failed"} => q'.status = q.status]_vars

\* C3: every run whose status is failed has a non-null error_message and a
\* non-null execution_time_ms, whichever step failed.
C3_FailedHasMessageAndTime ==
    q.status = "failed"
        => /\ q.error_message # None
           /\ q.execution_time_ms # NullMs
           /\ q.execution_time_ms >= 0

\* a run that failed at materialization, after the connector was released
C3_Witness ==
    /\ q.status = "failed"
    /\ q.error_message = "materialize_error"
    /\ q_conn = "closed"
    /\ q_pc = "raised"

(***************************************************************************)
(*           Properties of DashboardGenerationOrchestrator.generate        *)
(***************************************************************************)
DTerminal == d_pc \in {"returned", "raised"}
SourceIdx == DOMAIN dashboard.data_sources
ActiveIdx == {k \in SourceIdx : dashboard.data_sources[k].is_active}
TotalCalls(k) ==
    d_calls[k].get_connector + d_calls[k].connect + d_calls[k].disconnect
    + d_calls[k].get_schema + d_calls[k].generate_query + d_calls[k].execute_query

\* C4: if the processing of any one active source fails, the whole request
\* fails with GenerationQueryExecutionError: no response is returned, what
\* was gathered from other sources is not returned, and the dashboard-code
\* LLM call is never made.
C4_SourceFailureFailsRequest ==
    \A k \in SourceIdx :
        d_hist[k].outcome = "failed"
            => /\ d_pc = "raised"
               /\ d_out.kind = "raise"
               /\ d_out.exc = "GenerationQueryExecutionError"
               /\ d_out.response = NoResponse
               /\ d_react_calls = 0

\* the first source was gathered, the second failed after its fallback
C4_Witness ==
    /\ Len(dashboard.data_sources) >= 2
    /\ d_hist[1].outcome = "ok"
    /\ d_hist[2].outcome = "failed"
    /\ d_hist[2].fallback_failed
    /\ d_acc.data_sources_used = <<"ds1">>
    /\ d_pc = "raised"

\* C5: a dashboard with no active data source (empty list, or every source
\* inactive) makes generate fail with GenerationNoDataSourcesError, return no
\* response, and make zero connector calls and zero LLM calls.  (A failure
\* of the dashboard fetch itself surfaces as that database error.)
C5_NoActiveSourceFails ==
    (dashboard.exists /\ ActiveIdx = {})
        => /\ \A k \in SourceIdx : TotalCalls(k) = 0
           /\ d_react_calls = 0
           /\ d_out.kind # "return"
           /\ d_pc # "returned"
           /\ (d_pc = "raised" /\ d_out.exc # "db_error")
                  => d_out.exc = "GenerationNoDataSourcesError"

\* every associated source is inactive and the request has failed
C5_Witness ==
    /\ dashboard.exists
    /\ dashboard.data_sources # << >>
    /\ ActiveIdx = {}
    /\ d_pc = "raised"
    /\ d_out.exc = "GenerationNoDataSourcesError"
    /\ d_i > Len(dashboard.data_sources)

\* C6: per data source, generate_query is called at most once and
\* execute_query at most twice (the LLM query, then at most one fallback);
\* after the fallback execution fails no further query is executed and no
\* second fallback is chosen.
C6_AtMostOneFallback ==
    \A k \in SourceIdx :
        /\ d_calls[k].generate_query <= 1
        /\ d_calls[k].execute_query <= 2
        /\ d_calls[k].fallback_chosen <= 1
        /\ d_calls[k].execute_query = 2 => d_hist[k].llm_exec_failed
        /\ d_hist[k].fallback_failed
              => /\ d_calls[k].execute_query = 2
                 /\ d_pc \in {"aexit", "raised"}
                 /\ d_i = k

\* a source whose fallback failed, after the request ended
C6_Witness ==
    /\ d_pc = "raised"
    /\ \E k \in SourceIdx :
          /\ d_hist[k].fallback_failed
          /\ d_calls[k].execute_query = 2
          /\ d_calls[k].generate_query = 1

\* C7 as stated: once the dashboard is loaded, generate_react_visualization
\* is called exactly once when all active sources were processed
\* successfully, and zero times otherwise.
C7_ReactOnceIffAllActiveOk ==
    (DTerminal /\ dashboard.exists /\ d_out.exc # "db_error") =>
        d_react_calls = IF \A k \in ActiveIdx : d_hist[k].outcome = "ok"
                        THEN 1 ELSE 0

\* C7 amended: generate_react_visualization is called exactly once when the
\* dashboard has at least one active source and all active sources were
\* processed successfully, zero times otherwise; never once per source; and
\* only after the last active source has finished processing.
C7_ReactOnceIffSomeAndAllActiveOk ==
    /\ d_react_calls <= 1
    /\ DTerminal =>
          d_react_calls = IF /\ ActiveIdx # {}
                             /\ \A k \in ActiveIdx : d_hist[k].outcome = "ok"
                          THEN 1 ELSE 0
    /\ d_react_calls > 0 =>
          /\ \A k \in ActiveIdx : d_hist[k].outcome = "ok" /\ d_conn[k] = "closed"
          /\ d_i > Len(dashboard.data_sources)

\* two active sources were processed and the single call was made
C7_Witness ==
    /\ Cardinality(ActiveIdx) >= 2
    /\ d_react_calls = 1
    /\ d_pc = "returned"
    /\ Len(d_out.response.data_sources_used) >= 2

\* index of the dashboard source a summary is about
SourceOf(gq) ==
    CHOOSE k \in SourceIdx : dashboard.data_sources[k].id = gq.data_source_id

\* C8: when a source's LLM query fails and its fallback succeeds, the
\* summary returned for that source has query = the fallback string,
\* query_type = the fallback's type, and an explanation marking the fallback.
C8_FallbackSummaryMarked ==
    d_out.kind = "return" =>
        \A n \in DOMAIN d_out.response.queries_generated :
            LET gq == d_out.response.queries_generated[n]
                k == SourceOf(gq)
            IN  d_hist[k].fallback_used
                    => /\ gq.query = d_hist[k].fallback_query
                       /\ gq.query_type = d_hist[k].fallback_type
                       /\ "explanation" \in DOMAIN gq
                       /\ gq.explanation = FallbackExplanation

(***************************************************************************)
(*        _get_fallback_query as a function of its inputs                  *)
(***************************************************************************)
TableNames == {"orders", "t", ""}
FallbackSourceTypes == {"postgresql", "csv", "mysql"}

RECURSIVE SeqsUpTo(_, _)
SeqsUpTo(S, n) ==
    IF n = 0 THEN {<< >>}
    ELSE LET shorter == SeqsUpTo(S, n - 1)
         IN  shorter \cup {Append(x, e) : x \in {y \in shorter : Len(y) = n - 1}, e \in S}

PFallbackInit ==
    /\ p_pc = "fallback_call"
    /\ p_in \in [source_type : FallbackSourceTypes,
                 tables : SeqsUpTo(TableNames, MaxTables),
                 llm_query : {info.query : info \in LlmQueryInfos}]
    /\ p_out = << >>
    /\ QIdle /\ DIdle /\ RIdle

\* orchestrator.py 248-250: the call made by _process_data_source
PGetFallbackQuery ==
    /\ p_pc = "fallback_call"
    /\ p_out' = _get_fallback_query(p_in.source_type, [tables |-> p_in.tables])
    /\ p_pc' = "fallback_done"
    /\ UNCHANGED <<p_in, q_vars, d_vars, r_vars>>

PFallbackNext == PGetFallbackQuery

SpecFallback == PFallbackInit /\ [][PFallbackNext]_vars

\* C9: the fallback query depends on source_type and schema only: for
\* postgresql with a first table named orders (resp. t) it is
\* SELECT * FROM "orders" LIMIT 100 (resp. "t") of type sql; for postgresql
\* with no tables it is SELECT 1 of type sql; for every other source_type it
\* is df.head(100) of type pandas.
C9_FallbackQueryTable ==
    p_pc = "fallback_done" =>
        /\ (p_in.source_type = "postgresql" /\ p_in.tables # << >>
                /\ p_in.tables[1] = "orders")
              => p_out = <<"SELECT * FROM \"orders\" LIMIT 100", "sql">>
        /\ (p_in.source_type = "postgresql" /\ p_in.tables # << >>
                /\ p_in.tables[1] = "t")
              => p_out = <<"SELECT * FROM \"t\" LIMIT 100", "sql">>
        /\ (p_in.source_type = "postgresql" /\ p_in.tables = << >>)
              => p_out = <<"SELECT 1", "sql">>
        /\ p_in.source_type # "postgresql"
              => p_out = <<"df.head(100)", "pandas">>

\* a relational source with two tables got the query on its first table
C9_Witness ==
    /\ p_pc = "fallback_done"
    /\ p_in.source_type = "postgresql"
    /\ p_in.tables = <<"t", "orders">>
    /\ p_out[1] = "SELECT * FROM \"t\" LIMIT 100"

(***************************************************************************)
(*   LLM reply parsing and recommend_visualization of the providers        *)
(*   (services/llm/bedrock.py, services/llm/anthropic.py)                  *)
(***************************************************************************)
\* A reply is a sequence of tokens: the two fence markers and lines of text,
\* each line being the text of one JSON value or text that is not JSON.
\* the three-backtick fence marker, bare and with the json tag
Fence == "FENCE"
FenceJson == "FENCE_JSON"
Chunks == {"OBJ", "ARR_OBJ", "ARR_EMPTY", "ARR_NUM", "NUM", "BAD"}
Tokens == {Fence, FenceJson} \cup Chunks
ColumnNames == {"month", "sales"}
TitleLimit == 50
NaturalLanguages == {[text |-> "sales by month", len |-> 14],
                     [text |-> "a long question", len |-> 51]}

Range(seq) == {seq[k] : k \in DOMAIN seq}
FirstIndex(seq, tok) ==
    CHOOSE k \in DOMAIN seq : seq[k] = tok /\ \A j \in 1..(k - 1) : seq[j] # tok
\* str.split(tok)[0]
Before(seq, tok) ==
    IF tok \in Range(seq) THEN SubSeq(seq, 1, FirstIndex(seq, tok) - 1) ELSE seq
\* the text after the first occurrence of tok
After(seq, tok) == SubSeq(seq, FirstIndex(seq, tok) + 1, Len(seq))

\* bedrock.py 65-70, anthropic.py 154-159: pick the text to parse
ExtractJsonStr(content) ==
    IF FenceJson \in Range(content)
    THEN Before(Before(After(content, FenceJson), FenceJson), Fence)
    ELSE IF Fence \in Range(content)
         THEN Before(After(content, Fence), Fence)
         ELSE content

\* the JSON value written on one line
JsonOf(chunk) ==
    CASE chunk = "OBJ" -> [kind |-> "dict", first |-> "none"]
      [] chunk = "ARR_OBJ" -> [kind |-> "list", first |-> "dict"]
      [] chunk = "ARR_EMPTY" -> [kind |-> "list", first |-> "none"]
      [] chunk = "ARR_NUM" -> [kind |-> "list", first |-> "num"]
      [] chunk = "NUM" -> [kind |-> "num", first |-> "none"]
      [] OTHER -> [kind |-> "invalid", first |-> "none"]

\* json.loads: exactly one JSON value, anything else is a JSONDecodeError
json_loads(json_str) ==
    IF Len(json_str) = 1 THEN JsonOf(json_str[1])
    ELSE [kind |-> "invalid", first |-> "none"]

\* bedrock.py 63-81
_parse_json_response(content) ==
    LET v == json_loads(ExtractJsonStr(content))
        r == IF v.kind = "list" /\ v.first # "none"
             THEN [kind |-> v.first, first |-> "none"] ELSE v
    IN  IF v.kind = "invalid" THEN [status |-> "JSONDecodeError", value |-> v]
        ELSE IF r.kind # "dict" THEN [status |-> "ValueError", value |-> r]
        ELSE [status |-> "ok", value |-> r]

\* a default that binds the y-axis and the series to the first column
_get_default_visualization_YFirst(columns, natural_language) ==
    LET x_key == IF columns # << >> THEN columns[1] ELSE "x"
        y_key == IF columns # << >> THEN columns[1] ELSE "y"
    IN  [chart_type |-> "bar",
         title |-> [text |-> natural_language.text,
                    shown |-> IF natural_language.len > TitleLimit
                              THEN TitleLimit ELSE natural_language.len,
                    ellipsis |-> natural_language.len > TitleLimit],
         description |-> "Data visualization",
         x_axis |-> [data_key |-> x_key, label |-> x_key],
         y_axis |-> [data_key |-> y_key, label |-> y_key],
         series |-> <<[data_key |-> y_key, name |-> y_key, color |-> "#8884d8"]>>,
         legend |-> TRUE, tooltip |-> TRUE, grid |-> TRUE,
         reasoning |-> "Default bar chart visualization"]

\* bedrock.py 83-107, anthropic.py 170-190
_get_default_visualization(columns, natural_language) ==
    LET x_key == IF columns # << >> THEN columns[1] ELSE "x"
        y_key == IF Len(columns) > 1 THEN columns[2]
                 ELSE IF columns # << >> THEN columns[1] ELSE "y"
    IN  [chart_type |-> "bar",
         title |-> [text |-> natural_language.text,
                    shown |-> IF natural_language.len > TitleLimit
                              THEN TitleLimit ELSE natural_language.len,
                    ellipsis |-> natural_language.len > TitleLimit],
         description |-> "Data visualization",
         x_axis |-> [data_key |-> x_key, label |-> x_key],
         y_axis |-> [data_key |-> y_key, label |-> y_key],
         series |-> <<[data_key |-> y_key, name |-> y_key, color |-> "#8884d8"]>>,
         legend |-> TRUE, tooltip |-> TRUE, grid |-> TRUE,
         reasoning |-> "Default bar chart visualization"]

\* the object the model itself recommends (reply "OBJ")
LlmVizSpec ==
    [chart_type |-> "line",
     title |-> [text |-> "Monthly sales", shown |-> 13, ellipsis |-> FALSE],
     description |-> "Sales over time",
     x_axis |-> [data_key |-> "month", label |-> "Month"],
     y_axis |-> [data_key |-> "sales", label |-> "Sales"],
     series |-> <<[data_key |-> "sales", name |-> "Sales", color |-> "#82ca9d"]>>,
     legend |-> FALSE, tooltip |-> TRUE, grid |-> FALSE,
     reasoning |-> "Time series"]

\* a returned value that is not an object carries no spec
NoSpec ==
    [chart_type |-> None,
     title |-> [text |-> None, shown |-> 0, ellipsis |-> FALSE],
     description |-> None,
     x_axis |-> [data_key |-> None, label |-> None],
     y_axis |-> [data_key |-> None, label |-> None],
     series |-> << >>,
     legend |-> FALSE, tooltip |-> FALSE, grid |-> FALSE,
     reasoning |-> None]

PReturn(json, spec) == [kind |-> "return", exc |-> None, json |-> json, spec |-> spec]
PRaise(exc) == [kind |-> "raise", exc |-> exc, json |-> None, spec |-> NoSpec]

\* bedrock.py 244-306
bedrock_recommend_visualization(invoke_ok, content, columns, natural_language) ==
    IF ~invoke_ok THEN PRaise("LLMResponseError")
    ELSE LET r == _parse_json_response(content)
         IN  CASE r.status = "ok" -> PReturn("dict", LlmVizSpec)
               [] r.status = "JSONDecodeError" ->
                      PReturn("dict", _get_default_visualization(columns, natural_language))
               [] OTHER -> PRaise("LLMResponseError")

\* anthropic.py 95-168
anthropic_recommend_visualization(invoke_ok, content, columns, natural_language) ==
    IF ~invoke_ok THEN PRaise("LLMResponseError")
    ELSE LET v == json_loads(ExtractJsonStr(content))
         IN  IF v.kind = "invalid"
             THEN PReturn("dict", _get_default_visualization(columns, natural_language))
             ELSE PReturn(v.kind, IF v.kind = "dict" THEN LlmVizSpec ELSE NoSpec)

PVizInit ==
    /\ p_pc = "viz_call"
    /\ p_in \in [provider : {"bedrock", "anthropic"},
                 invoke_ok : BOOLEAN,
                 content : SeqsUpTo(Tokens, MaxContentLen),
                 columns : SeqsUpTo(ColumnNames, MaxCols),
                 natural_language : NaturalLanguages]
    /\ p_out = PReturn(None, NoSpec)
    /\ QIdle /\ DIdle /\ RIdle

\* services/llm/base.py 36-57: the provider's recommend_visualization
PRecommendVisualization ==
    /\ p_pc = "viz_call"
    /\ p_out' = IF p_in.provider = "bedrock"
                THEN bedrock_recommend_visualization(p_in.invoke_ok, p_in.content,
                         p_in.columns, p_in.natural_language)
                ELSE anthropic_recommend_visualization(p_in.invoke_ok, p_in.content,
                         p_in.columns, p_in.natural_language)
    /\ p_pc' = "viz_done"
    /\ UNCHANGED <<p_in, q_vars, d_vars, r_vars>>

PVizNext == PRecommendVisualization

SpecViz == PVizInit /\ [][PVizNext]_vars

\* the reply holds neither an object nor an array whose first element is one
Unnormalizable(content) ==
    LET v == json_loads(ExtractJsonStr(content))
    IN  ~ (v.kind = "dict" \/ (v.kind = "list" /\ v.first = "dict"))

\* C10: when the model replied but the reply cannot be normalized into a
\* visualization spec, recommend_visualization does not raise and returns
\* exactly the default visualization for the result's columns.
C10_LenientOnUnparseableReply ==
    (p_pc = "viz_done" /\ p_in.invoke_ok /\ Unnormalizable(p_in.content))
        => /\ p_out.kind = "return"
           /\ p_out.json = "dict"
           /\ p_out.spec = _get_default_visualization(p_in.columns,
                                                      p_in.natural_language)

(***************************************************************************)
(*        The visualization step of QueryExecutor.execute                  *)
(***************************************************************************)
\* C11: once the query has been executed and its result materialized, no
\* outcome of the visualization step (the provider raises, returns a
\* default, or returns a value of unexpected shape) makes the run failed.
C11_VisualizationNeverFailsRun ==
    (q.status = "failed" /\ ~q.result_data.is_null)
        => q.error_message # "viz_shape_error"

\* C12: every run that ends completed with a result of at least one row has
\* a visualization attached, whose chart_type is the recommended one or the
\* default bar chart.
C12_CompletedWithRowsHasVisualization ==
    (q.status = "completed" /\ q.result_data.row_count >= 1)
        => /\ q_viz # NoViz
           /\ q_viz.chart_type \in {"line", "bar"}

(***************************************************************************)
(*        generate_query of the providers (bedrock.py, anthropic.py)       *)
(***************************************************************************)
RECURSIVE Text(_)
\* the reply as the one string the provider received
Text(content) ==
    IF content = << >> THEN "" ELSE Head(content) \o Text(Tail(content))

GQReturn(result) == [kind |-> "return", exc |-> None, result |-> result]
GQRaise(exc) == [kind |-> "raise", exc |-> exc, result |-> NoQueryInfo]

\* bedrock.py 178-242; obj is the object the reply's "OBJ" stands for
bedrock_generate_query(invoke_ok, content, obj) ==
    IF ~invoke_ok THEN GQRaise("LLMConnectionError")
    ELSE LET r == _parse_json_response(content)
         IN  IF r.status = "ok"
             THEN GQReturn([query |-> obj.query, query_type |-> obj.query_type,
                            explanation |-> obj.explanation])
             ELSE GQRaise("LLMResponseError")

\* anthropic.py 24-93
anthropic_generate_query(invoke_ok, content, obj) ==
    IF ~invoke_ok THEN GQRaise("LLMConnectionError")
    ELSE LET v == json_loads(ExtractJsonStr(content))
         IN  CASE v.kind = "invalid" ->
                      GQReturn([query |-> Text(content), query_type |-> "pandas",
                                explanation |-> "Generated pandas code"])
               [] v.kind = "dict" ->
                      GQReturn([query |-> obj.query, query_type |-> obj.query_type,
                                explanation |-> obj.explanation])
               [] OTHER -> GQRaise("LLMConnectionError")

\* services/llm/base.py 10-33
generate_query(provider, invoke_ok, content, obj) ==
    IF provider = "bedrock" THEN bedrock_generate_query(invoke_ok, content, obj)
    ELSE anthropic_generate_query(invoke_ok, content, obj)

PGenQueryInit ==
    /\ p_pc = "genq_call"
    /\ p_in \in [provider : {"bedrock", "anthropic"},
                 invoke_ok : BOOLEAN,
                 content : SeqsUpTo(Tokens, MaxContentLen),
                 obj : LlmQueryInfos]
    /\ p_out = GQReturn(NoQueryInfo)
    /\ QIdle /\ DIdle /\ RIdle

PGenerateQuery ==
    /\ p_pc = "genq_call"
    /\ p_out' = generate_query(p_in.provider, p_in.invoke_ok, p_in.content, p_in.obj)
    /\ p_pc' = "genq_done"
    /\ UNCHANGED <<p_in, q_vars, d_vars, r_vars>>

PGenQueryNext == PGenerateQuery

SpecGenQuery == PGenQueryInit /\ [][PGenQueryNext]_vars

\* C13: generate_query raises LLMConnectionError exactly when the call to the
\* model service fails and LLMResponseError exactly when the reply cannot be
\* normalized into {query, query_type, explanation}; it never returns a
\* result built from un-normalizable reply text.
C13_GenerateQueryErrorKinds ==
    p_pc = "genq_done" =>
        /\ (p_out.kind = "raise" /\ p_out.exc = "LLMConnectionError")
               <=> ~p_in.invoke_ok
        /\ (p_out.kind = "raise" /\ p_out.exc = "LLMResponseError")
               <=> (p_in.invoke_ok /\ Unnormalizable(p_in.content))

\* the envelopes a reply may put around the object "OBJ"
Envelopes ==
    { <<"OBJ">>, <<FenceJson, "OBJ", Fence>>, <<Fence, "OBJ", Fence>>,
      <<"ARR_OBJ">> }

\* C14: for every provider and every object with the expected keys,
\* generate_query returns the same structured result for the bare object,
\* the object in a fenced block (json or plain) and the array holding only
\* the object; none of these envelopes makes it raise.
C14_EnvelopesGiveSameResult ==
    (p_pc = "genq_done" /\ p_in.invoke_ok /\ p_in.content \in Envelopes)
        => /\ p_out.kind = "return"
           /\ p_out.result = [query |-> p_in.obj.query,
                              query_type |-> p_in.obj.query_type,
                              explanation |-> p_in.obj.explanation]

(***************************************************************************)
(*   generate_react_visualization and its handling by the orchestrator     *)
(***************************************************************************)
\* the object the model itself returns for a dashboard (reply "OBJ")
LlmReactObj ==
    [react_code |-> "function Dashboard({ data }) { return <BarChart /> }",
     components |-> <<[name |-> "SalesChart", chart_type |-> "bar",
                       description |-> "Sales", data_keys |-> <<"sales">>]>>,
     reasoning |-> "Bar chart of sales"]

NoReact == [react_code |-> None, components |-> << >>, reasoning |-> None]

RVReturn(result) == [kind |-> "return", exc |-> None, result |-> result]
RVRaise(exc) == [kind |-> "raise", exc |-> exc, result |-> NoReact]

\* bedrock.py 162-177, anthropic.py 327-342: no language marker of the list
\* occurs in a reply, so the generic code block is what is looked for
_extract_code_from_response(content) ==
    LET fences == {k \in DOMAIN content : content[k] \in {Fence, FenceJson}}
    IN  IF fences = {} THEN Text(content)
        ELSE LET k == CHOOSE i \in fences : \A j \in fences : i <= j
                 later == {j \in fences : j > k}
                 stop == IF later = {} THEN Len(content) + 1
                         ELSE CHOOSE i \in later : \A j \in later : i <= j
             IN  (IF content[k] = FenceJson THEN "json" ELSE "")
                     \o Text(SubSeq(content, k + 1, stop - 1))

ExtractedReact(content) ==
    [react_code |-> _extract_code_from_response(content), components |-> << >>,
     reasoning |-> "Generated React visualization code"]

\* bedrock.py 322-392
bedrock_generate_react_visualization(invoke_ok, content) ==
    IF ~invoke_ok THEN RVRaise("LLMResponseError")
    ELSE LET r == _parse_json_response(content)
         IN  CASE r.status = "ok" -> RVReturn(LlmReactObj)
               [] r.status = "JSONDecodeError" -> RVReturn(ExtractedReact(content))
               [] OTHER -> RVRaise("LLMResponseError")

\* anthropic.py 206-278
anthropic_generate_react_visualization(invoke_ok, content) ==
    IF ~invoke_ok THEN RVRaise("LLMResponseError")
    ELSE LET v == json_loads(ExtractJsonStr(content))
         IN  CASE v.kind = "invalid" -> RVReturn(ExtractedReact(content))
               [] v.kind = "dict" -> RVReturn(LlmReactObj)
               [] OTHER -> RVRaise("LLMResponseError")

NoLlmResponse == [kind |-> "none", exc |-> None, result |-> NoReact]
NoReactOut == [kind |-> "none", exc |-> None, react_code |-> None, components |-> << >>]

PReactInit ==
    /\ p_pc = "react_call"
    /\ p_in \in [provider : {"bedrock", "anthropic"},
                 invoke_ok : BOOLEAN,
                 content : SeqsUpTo(Tokens, MaxContentLen)]
    /\ p_out = [llm_response |-> NoLlmResponse, out |-> NoReactOut]
    /\ QIdle /\ DIdle /\ RIdle

\* orchestrator.py 144-149: the provider's generate_react_visualization
PGenerateReactVisualization ==
    /\ p_pc = "react_call"
    /\ p_out' = [p_out EXCEPT !.llm_response =
                    IF p_in.provider = "bedrock"
                    THEN bedrock_generate_react_visualization(p_in.invoke_ok,
                                                              p_in.content)
                    ELSE anthropic_generate_react_visualization(p_in.invoke_ok,
                                                                p_in.content)]
    /\ p_pc' = "react_handle"
    /\ UNCHANGED <<p_in, q_vars, d_vars, r_vars>>

\* orchestrator.py 150-189: the except clause, or the response
PReactHandle ==
    /\ p_pc = "react_handle"
    /\ p_out' = [p_out EXCEPT !.out =
                    IF p_out.llm_response.kind = "raise"
                    THEN [kind |-> "raise", exc |-> "GenerationCodeError",
                          react_code |-> None, components |-> << >>]
                    ELSE [kind |-> "return", exc |-> None,
                          react_code |-> p_out.llm_response.result.react_code,
                          components |-> p_out.llm_response.result.components]]
    /\ p_pc' = "react_done"
    /\ UNCHANGED <<p_in, q_vars, d_vars, r_vars>>

PReactNext == PGenerateReactVisualization \/ PReactHandle

SpecReact == PReactInit /\ [][PReactNext]_vars

\* C15: if the reply to generate_react_visualization cannot be normalized
\* into the expected structure, or the call fails, the provider raises, the
\* request fails with GenerationCodeError and no GenerateResponse is returned.
C15_CodeGenerationStrict ==
    (p_pc = "react_done" /\ (~p_in.invoke_ok \/ Unnormalizable(p_in.content)))
        => /\ p_out.llm_response.kind = "raise"
           /\ p_out.out.kind = "raise"
           /\ p_out.out.exc = "GenerationCodeError"

(***************************************************************************)
(*                 Connector lifetimes of both pipelines                   *)
(***************************************************************************)
\* a run of either pipeline
SpecPipelines == (QInit \/ DInit) /\ [][QNext \/ DNext]_vars

\* C16: every connector a pipeline run opened has been released by
\* disconnect() when the run returns or raises, whichever step raised; no
\* connector remains connected after the run.
C16_ConnectorReleased ==
    /\ QTerminal =>
          /\ q_conn # "open"
          /\ q_calls.get_schema >= 1 =>
                (q_conn = "closed" /\ q_calls.disconnect = 1)
    /\ DTerminal =>
          \A k \in DOMAIN d_conn :
             /\ d_conn[k] # "open"
             /\ d_calls[k].get_schema >= 1 =>
                   (d_conn[k] = "closed" /\ d_calls[k].disconnect = 1)

\* a dashboard run raised after a source's fallback query failed, and that
\* source's connector is closed
C16_Witness ==
    /\ d_pc = "raised"
    /\ \E k \in DOMAIN d_conn :
          /\ d_hist[k].fallback_failed
          /\ d_conn[k] = "closed"
          /\ d_calls[k].disconnect = 1

(***************************************************************************)
(*          Dashboard generation with a connector call that blocks         *)
(***************************************************************************)
\* postgresql.py 62-110: get_schema and execute_query run pd.read_sql on the
\* engine with no timeout, and _process_data_source awaits them without one;
\* a call the server never answers leaves the run waiting in that call
DHang ==
    /\ d_pc \in {"get_schema", "execute_query", "fallback"}
    /\ d_pc' = "hung"
    /\ UNCHANGED <<dashboard, d_i, d_cur, d_exc, d_acc, d_conn, d_calls,
                   d_react_calls, d_hist, d_out>>
    /\ UNCHANGED <<q_vars, p_vars, r_vars>>

DHangNext == DNext \/ DHang

\* every step the run can take is eventually taken
SpecDashHang == DInit /\ [][DHangNext]_vars /\ WF_vars(DHangNext)

\* C17: generate always terminates (returns a response or raises), even when
\* a connector call for one source never returns.
C17_GenerateTerminates == <>DTerminal

(***************************************************************************)
(*      The route handlers (routes/query.py, routes/dashboards.py)         *)
(***************************************************************************)
GenerationExceptions ==
    {"GenerationNoDataSourcesError", "GenerationQueryExecutionError",
     "GenerationCodeError"}

Http(status, error, message, details) ==
    [status |-> status, error |-> error, message |-> message, details |-> details]

\* routes/query.py 32-80
QRoute ==
    /\ q_pc \in {"returned", "raised"}
    /\ http' = CASE q_pc = "returned" -> Http(200, None, None, None)
                 [] q_exc = "QueryException" ->
                        \* detail=str(e): a string, no kind and no details
                        Http(400, None, "Query execution failed: ...", None)
                 [] OTHER -> Http(500, None, "Internal error: ...", None)
    /\ q_pc' = "responded"
    /\ UNCHANGED <<db_sources, q_req, q, q_exc, q_ds, q_conn, q_calls, q_viz, q_hist>>
    /\ UNCHANGED <<d_vars, p_vars>>

\* routes/dashboards.py 203-211
DRoute ==
    /\ d_pc \in {"returned", "raised"}
    /\ http' = CASE d_out.kind = "return" -> Http(200, None, None, None)
                 [] d_out.exc \in GenerationExceptions ->
                        Http(400, d_out.exc, d_out.message, d_out.details)
                 [] d_out.exc = "HTTPException" ->
                        \* raised by _get_dashboard, passes through the route
                        Http(404, None, d_out.message, None)
                 [] OTHER -> Http(500, None, None, None)   \* not caught by the route
    /\ d_pc' = "responded"
    /\ UNCHANGED <<dashboard, d_i, d_cur, d_exc, d_acc, d_conn, d_calls,
                   d_react_calls, d_hist, d_out>>
    /\ UNCHANGED <<q_vars, p_vars>>

RoutesNext == QNext \/ DNext \/ QRoute \/ DRoute

\* a request to either route
SpecRoutes == (QInit \/ DInit) /\ [][RoutesNext]_vars

\* C18: every terminal failure of either pipeline reaches the caller with a
\* machine-readable error kind and a human-readable message (details are
\* optional); stated for the failures the route handlers answer themselves
\* (status 4xx), which leaves out errors of the database session.
C18_FailureHasKindAndMessage ==
    (http.status >= 400 /\ http.status < 500)
        => (http.error # None /\ http.message # None)

(***************************************************************************)
(*                 A data source of unrecognized source_type               *)
(***************************************************************************)
\* C19: when get_connector rejects a data source's type, the failure that
\* reaches the caller is not reported as GenerationQueryExecutionError and
\* not as a failed run ending in QueryException.
C19_UnknownTypeIsNotPipelineError ==
    /\ (QTerminal /\ q_calls.get_connector = 1
            /\ q_ds.source_type \notin ConnectorRegistry)
          => ~(q.status = "failed" /\ q_exc = "QueryException")
    /\ (DTerminal /\ \E k \in DOMAIN d_calls :
                        /\ d_calls[k].get_connector = 1
                        /\ dashboard.data_sources[k].source_type
                               \notin ConnectorRegistry)
          => d_out.exc # "GenerationQueryExecutionError"

(***************************************************************************)
(*                    Timing metrics of a GenerateResponse                 *)
(***************************************************************************)
\* C20: every GenerateResponse returned by generate carries a non-null
\* TimingMetrics with exactly one per-source timing entry for each id in
\* data_sources_used.
C20_ResponseHasTimingMetrics ==
    d_out.kind = "return" =>
        LET tm == d_out.response.timing_metrics
        IN  /\ ~tm.is_null
            /\ [k \in DOMAIN tm.data_source_timings |->
                    tm.data_source_timings[k].data_source_id]
                   = d_out.response.data_sources_used

(***************************************************************************)
(*            Resolution of the data source of a single-query run          *)
(***************************************************************************)
NotGiven == q_req.data_source_id \in {None, ""}
NoCandidate == _get_data_source(q_req.data_source_id) = {}

CellValues == {NaN, "Timestamp(2024-01-01 00:00:00)", "7"}

\* the frames of at most MaxCols columns (names may repeat) and MaxFrameRows rows
DataFrames ==
    UNION { UNION { [columns : {cols},
                     data : [1..n -> [1..Len(cols) -> CellValues]]]
                    : n \in 0..MaxFrameRows }
            : cols \in SeqsUpTo(ColumnNames, MaxCols) }

PMaterializeInit ==
    /\ p_pc = "materialize_call"
    /\ p_in \in DataFrames
    /\ p_out = NullResult
    /\ QIdle /\ DIdle /\ RIdle

\* executor.py 91, orchestrator.py 239: the call of the materializer
PDataframeToDict ==
    /\ p_pc = "materialize_call"
    /\ p_out' = dataframe_to_dict(p_in)
    /\ p_pc' = "materialize_done"
    /\ UNCHANGED <<p_in, q_vars, d_vars, r_vars>>

PMaterializeNext == PDataframeToDict

SpecMaterialize == PMaterializeInit /\ [][PMaterializeNext]_vars

\* C22: for every table the materializer converts, an empty table and a
\* table with repeated column names included, len(rows) equals row_count and
\* every row's key set is exactly the set of entries of columns.
C22_RowsMatchCountAndColumns ==
    p_pc = "materialize_done" =>
        /\ Len(p_out.rows) = p_out.row_count
        /\ \A k \in DOMAIN p_out.rows :
              DOMAIN p_out.rows[k] = Range(p_out.columns)

\* a table of two rows whose two columns have the same name was converted
C22_Witness ==
    /\ p_pc = "materialize_done"
    /\ p_in.columns = <<"month", "month">>
    /\ Len(p_in.data) = 2
    /\ p_out.row_count = 2
    /\ DOMAIN p_out.rows[1] = {"month"}

(***************************************************************************)
(*                     The default visualization                           *)
(***************************************************************************)
\* the axis and series bindings of a visualization spec
Bindings(spec) ==
    [x_axis |-> spec.x_axis, y_axis |-> spec.y_axis, series |-> spec.series]

\* the reply is not JSON, so the provider hands back the default
DefaultReturned ==
    /\ p_pc = "viz_done"
    /\ p_in.invoke_ok
    /\ json_loads(ExtractJsonStr(p_in.content)).kind = "invalid"

\* C23: the default visualization binds the x-axis to the first column and
\* the single y-axis/series to the second column (to the first when there is
\* only one), with chart_type bar and legend, tooltip and grid enabled; its
\* bindings depend on the column list only, in both providers.
C23_DefaultVisualizationBindings ==
    DefaultReturned =>
        /\ p_out.kind = "return"
        /\ p_out.spec.chart_type = "bar"
        /\ p_out.spec.legend /\ p_out.spec.tooltip /\ p_out.spec.grid
        /\ Len(p_out.spec.series) = 1
        /\ p_out.spec.series[1].data_key = p_out.spec.y_axis.data_key
        /\ p_in.columns # << >> =>
              /\ p_out.spec.x_axis.data_key = p_in.columns[1]
              /\ p_out.spec.y_axis.data_key =
                    IF Len(p_in.columns) > 1 THEN p_in.columns[2]
                    ELSE p_in.columns[1]
        /\ \A nl \in NaturalLanguages :
              Bindings(p_out.spec) =
                  Bindings(_get_default_visualization(p_in.columns, nl))

\* the default was returned for a result of two columns
C23_Witness ==
    /\ DefaultReturned
    /\ p_in.provider = "anthropic"
    /\ p_in.columns = <<"month", "sales">>
    /\ p_out.spec.x_axis.data_key = "month"
    /\ p_out.spec.y_axis.data_key = "sales"
    /\ p_out.spec.reasoning = "Default bar chart visualization"

(***************************************************************************)
(*                     health_check of the providers                       *)
(***************************************************************************)
\* ways the call to the model service fails
CallErrors == {"connection_error", "timeout", "rate_limited", "unauthorized"}

\* content blocks of a reply: with a text field or without one
Blocks == {"text", "no_text"}

\* what the service call hands back: an exception, or a reply
ProbeOutcomes ==
    [call : CallErrors, body_json : {TRUE}, has_content : {TRUE}, content : {<< >>}]
    \cup [call : {"ok"}, body_json : BOOLEAN, has_content : BOOLEAN,
          content : SeqsUpTo(Blocks, MaxContentLen)]

HReturn(value) == [kind |-> "return", value |-> value, exc |-> None]

\* bedrock.py 38-61: TRUE when _invoke_model returns the reply's text
_invoke_model_returns(o) ==
    /\ o.call = "ok"            \* client.invoke_model did not raise
    /\ o.body_json              \* json.loads(response_body)
    /\ o.has_content            \* result["content"]
    /\ o.content # << >>        \* [0]
    /\ o.content[1] = "text"    \* ["text"]

\* bedrock.py 308-320
bedrock_health_check(o) == HReturn(_invoke_model_returns(o))

\* a probe that reports success whenever the call returns
anthropic_health_check_AnyReply(o) ==
    IF o.call # "ok" THEN HReturn(FALSE) ELSE HReturn(TRUE)

\* anthropic.py 192-204
anthropic_health_check(o) ==
    IF o.call # "ok" THEN HReturn(FALSE) ELSE HReturn(o.content # << >>)

PHealthInit ==
    /\ p_pc = "health_call"
    /\ p_in \in [provider : {"bedrock", "anthropic"}, outcome : ProbeOutcomes]
    /\ p_out = [kind |-> "none", value |-> FALSE, exc |-> None]
    /\ QIdle /\ DIdle /\ RIdle

\* services/llm/base.py 58-66
PHealthCheck ==
    /\ p_pc = "health_call"
    /\ p_out' = IF p_in.provider = "bedrock"
                THEN bedrock_health_check(p_in.outcome)
                ELSE anthropic_health_check(p_in.outcome)
    /\ p_pc' = "health_done"
    /\ UNCHANGED <<p_in, q_vars, d_vars, r_vars>>

PHealthNext == PHealthCheck

SpecHealth == PHealthInit /\ [][PHealthNext]_vars

\* C24 as stated: health_check never raises, returns true when the probe
\* call to the model service succeeds and false on any failure of that call.
C24_HealthTrueIffCallSucceeds ==
    p_pc = "health_done" =>
        /\ p_out.kind = "return"
        /\ p_out.value <=> (p_in.outcome.call = "ok")

\* C24 amended: health_check never raises; it returns false on any failure
\* of the probe call and also when the call succeeds with a reply that has
\* no content block; it returns true when the call succeeds with a
\* well-formed reply whose first content block is text.
C24_HealthNeverRaises ==
    p_pc = "health_done" =>
        /\ p_out.kind = "return"
        /\ p_in.outcome.call # "ok" => ~p_out.value
        /\ (p_in.outcome.call = "ok" /\ p_in.outcome.content = << >>)
              => ~p_out.value
        /\ (p_in.outcome.call = "ok" /\ p_in.outcome.body_json
                /\ p_in.outcome.has_content /\ p_in.outcome.content # << >>
                /\ p_in.outcome.content[1] = "text")
              => p_out.value

\* the Anthropic call succeeded with an empty content list and the probe
\* answered false
C24_Witness ==
    /\ p_pc = "health_done"
    /\ p_in.provider = "anthropic"
    /\ p_in.outcome.call = "ok"
    /\ p_in.outcome.content = << >>
    /\ p_out = HReturn(FALSE)

(***************************************************************************)
(*                 The error_message of a single-query run                 *)
(***************************************************************************)
\* C25: at every point of a single-query run error_message is non-null only
\* if status is failed; a run in processing or completed has a null
\* error_message.
C25_ErrorMessageOnlyWhenFailed ==
    q.error_message # None => q.status = "failed"

\* a run whose query failed in execute_query ended failed, with the error
\* text as its message
C25_Witness ==
    /\ q_pc = "raised"
    /\ q.status = "failed"
    /\ q.error_message = "exec_error"
    /\ q_calls.execute_query = 1

(***************************************************************************)
(*              The error raised for a failed data source                  *)
(***************************************************************************)
\* C26: when a data source fails, the raised whole-request error names that
\* source (its id in details, its name in the message) and carries the
\* underlying error text; when both the LLM query and the fallback query
\* failed, the error carried is the fallback's, not the original query's.
C26_SourceFailureNamesSourceAndError ==
    (d_pc = "raised" /\ d_out.exc = "GenerationQueryExecutionError") =>
        /\ d_i \in ActiveIdx
        /\ d_hist[d_i].outcome = "failed"
        /\ \A k \in SourceIdx : k # d_i => d_hist[k].outcome # "failed"
        /\ d_out.details.data_source_id = dashboard.data_sources[d_i].id
        /\ d_out.message = dashboard.data_sources[d_i].name
        /\ d_out.details.error \in
              {"Unknown data source type", "connect_error", "schema_error",
               "llm_error", "fallback_exec_error"}
        /\ d_hist[d_i].fallback_failed
              <=> d_out.details.error = "fallback_exec_error"
        /\ d_calls[d_i].get_schema = 0
              <=> d_out.details.error \in {"Unknown data source type",
                                           "connect_error"}

\* the second source's LLM query and fallback query both failed and the
\* request raised with that source's id and the fallback's error
C26_Witness ==
    /\ d_pc = "raised"
    /\ Len(d_hist) = 2
    /\ d_i = 2
    /\ d_hist[1].outcome = "ok"
    /\ d_hist[2].llm_exec_failed /\ d_hist[2].fallback_failed
    /\ d_out.exc = "GenerationQueryExecutionError"
    /\ d_out.details = [data_source_id |-> "ds2", error |-> "fallback_exec_error"]

(***************************************************************************)
(*              The sources and queries of a GenerateResponse              *)
(***************************************************************************)
is_active(ds) == ds.is_active

\* the ids of the dashboard's active sources, in dashboard order
ActiveIds ==
    LET act == SelectSeq(dashboard.data_sources, is_active)
    IN  [k \in DOMAIN act |-> act[k].id]

\* C27: in every GenerateResponse data_sources_used is exactly the ids of
\* the dashboard's active sources in dashboard order, queries_generated has
\* the same length with queries_generated[i].data_source_id =
\* data_sources_used[i], and no connector call or query-generation call was
\* made for an inactive source.
C27_UsedSourcesAreTheActiveOnes ==
    d_out.kind = "return" =>
        LET r == d_out.response
        IN  /\ r.data_sources_used = ActiveIds
            /\ Len(r.queries_generated) = Len(r.data_sources_used)
            /\ \A i \in DOMAIN r.queries_generated :
                  r.queries_generated[i].data_source_id = r.data_sources_used[i]
            /\ \A k \in SourceIdx \ ActiveIdx :
                  d_calls[k] = NoCalls /\ d_conn[k] = "none"

\* a response for a dashboard whose first source is inactive and whose
\* second is active
C27_Witness ==
    /\ d_pc = "returned"
    /\ Len(dashboard.data_sources) = 2
    /\ ~dashboard.data_sources[1].is_active
    /\ dashboard.data_sources[2].is_active
    /\ d_out.response.data_sources_used = <<"ds2">>
    /\ d_calls[1] = NoCalls
    /\ d_calls[2].execute_query >= 1

(***************************************************************************)
(*                  The sample data of a GenerateResponse                  *)
(***************************************************************************)
\* C28: in every GenerateResponse sample_data contains exactly one entry for
\* each data source in data_sources_used, holding the rows retrieved from
\* that source, also when two used sources have the same name.
C28_OneSampleEntryPerUsedSource ==
    d_out.kind = "return" =>
        LET r == d_out.response
        IN  /\ Cardinality(DOMAIN r.sample_data) = Len(r.data_sources_used)
            /\ \A i \in DOMAIN d_acc.data_samples :
                  /\ d_acc.data_samples[i].name \in DOMAIN r.sample_data
                  /\ r.sample_data[d_acc.data_samples[i].name]
                         = d_acc.data_samples[i].rows

(***************************************************************************)
(*                The order in which sources are processed                 *)
(***************************************************************************)
\* C29: generate processes the active sources one at a time in dashboard
\* order: the connector of a later source is opened only after the connector
\* of every earlier one has been released, at most one connector is open at
\* any time, and after the first source that fails no connector call or LLM
\* call is made for a later source.
C29_SourcesProcessedOneAtATime ==
    /\ Cardinality({k \in DOMAIN d_conn : d_conn[k] = "open"}) <= 1
    /\ \A k \in DOMAIN d_conn : d_conn[k] = "open" => k = d_i
    /\ \A k, j \in DOMAIN d_calls :
          (k < j /\ TotalCalls(j) > 0) =>
              /\ d_conn[k] # "open"
              /\ k \in ActiveIdx =>
                    (d_hist[k].outcome = "ok" /\ d_conn[k] = "closed")
    /\ \A k, j \in DOMAIN d_calls :
          (k < j /\ d_hist[k].outcome = "failed") =>
              (d_calls[j] = NoCalls /\ d_conn[j] = "none")

\* the second source's query is about to run on its open connector, after
\* the first source's connector was closed
C29_Witness ==
    /\ d_pc = "execute_query"
    /\ d_i = 2
    /\ d_conn = <<"closed", "open">>
    /\ d_hist[1].outcome = "ok"

(***************************************************************************)
(*                  Inactive sources and the single query                  *)
(***************************************************************************)
\* C30: the single-query pipeline never opens a connector to, or executes a
\* query against, a data source whose is_active flag is false, whether the
\* source was chosen by default or by an explicit data_source_id.
C30_NeverConnectsToInactiveSource ==
    (q_calls.connect >= 1 \/ q_conn # "none" \/ q_calls.execute_query >= 1)
        => q_ds.is_active

====
